---- MODULE Spec2Model ----
(***************************************************************************)
(* Asset manager of the harmony engine: the materials map, the image cache *)
(* and the load pass of src/assets/asset_manager.rs, with the image        *)
(* constructors of src/graphics/material/image.rs.                         *)
(***************************************************************************)
EXTENDS Integers, Sequences, FiniteSets, TLC

VARIABLES
    root,               \* the directory listing WalkDir yields for self.path
    materials,          \* AssetManager.materials: handle -> Option<Arc<data>>
    images,             \* AssetManager.images: name -> Arc<Image>
    loads,              \* per handle, how many times handle.load_data has run
    first_ret,          \* per handle, what the first get_material_or_load returned
    multi_bind_groups,  \* GPUResourceManager's "pbr" table: index -> bind group
    pc,                 \* "idle", or "walk" while load() is inside its for loop
    cursor,             \* number of entries of root the running load() has processed
    init_encoder,       \* copy commands recorded into load()'s command encoder
    queue,              \* command buffers submitted since the last load() began
    ret,                \* the last completed call and what it returned / did
    panicked            \* TRUE once an unwrap/expect/panic! has fired

vars == <<root, materials, images, loads, first_ret, multi_bind_groups,
          pc, cursor, init_encoder, queue, ret, panicked>>

(* ------------------------------ bounds -------------------------------- *)

\* load_data runs per handle are capped so the load counter stays finite
MaxLoads == 3

\* decoded images are at most MaxWidth pixels wide and MaxHeight pixels high
MaxWidth == 3
MaxHeight == 3

(* --------------------------- file names ------------------------------- *)

\* whether pat occurs in s starting at index i
IsPrefixAt(pat, s, i) ==
    \/ pat = << >>
    \/ /\ i + Len(pat) - 1 <= Len(s)
       /\ \A k \in 1..Len(pat) : s[i + k - 1] = pat[k]

\* str::ends_with
EndsWith(s, pat) ==
    /\ Len(pat) <= Len(s)
    /\ IsPrefixAt(pat, s, Len(s) - Len(pat) + 1)

\* str::contains
Contains(s, pat) == \E i \in 1..(Len(s) + 1) : IsPrefixAt(pat, s, i)

LowerOf(c) ==
    CASE c = "N" -> "n" [] c = "O" -> "o" [] c = "R" -> "r" [] c = "M" -> "m"
      [] c = "A" -> "a" [] c = "L" -> "l" [] c = "E" -> "e" [] c = "T" -> "t"
      [] c = "I" -> "i" [] c = "C" -> "c" [] c = "K" -> "k" [] c = "W" -> "w"
      [] c = "H" -> "h" [] c = "P" -> "p" [] c = "G" -> "g" [] c = "D" -> "d"
      [] OTHER -> c

\* str::to_lowercase
to_lowercase(s) == [i \in 1..Len(s) |-> LowerOf(s[i])]

EXT_PNG == <<".", "p", "n", "g">>
EXT_JPG == <<".", "j", "p", "g">>
EXT_HDR == <<".", "h", "d", "r">>
EXT_GLTF == <<".", "g", "l", "t", "f">>
EXT_SHADER == <<".", "s", "h", "a", "d", "e", "r">>
PAT_NORMAL == <<"_", "n", "o", "r", "m", "a", "l">>
PAT_METALLIC == <<"m", "e", "t", "a", "l", "l", "i", "c">>
WHITE == <<"w", "h", "i", "t", "e">>
ROCK == <<"r", "o", "c", "k">>

\* index of the last "." of a file name, 0 when it has none
LastDot(s) ==
    LET dots == {i \in 1..Len(s) : s[i] = "."}
    IN  IF dots = {} THEN 0 ELSE CHOOSE i \in dots : \A j \in dots : j <= i

\* the logical name an image is cached under: the file name without extension
ImageName(file_name) ==
    IF LastDot(file_name) = 0 THEN file_name
    ELSE SubSeq(file_name, 1, LastDot(file_name) - 1)

(* ------------------------- directory listings ------------------------- *)

F_white == [dir |-> "a", file_name |-> WHITE \o EXT_PNG, handles |-> {}]
F_rockA == [dir |-> "a", file_name |-> ROCK \o EXT_PNG, handles |-> {}]
F_rockB == [dir |-> "b", file_name |-> ROCK \o EXT_PNG, handles |-> {}]
F_rockN == [dir |-> "a", file_name |-> <<"r", "o", "c", "k", "_", "N", "o", "r", "m", "a", "l">> \o EXT_PNG,
            handles |-> {}]
F_metal == [dir |-> "a", file_name |-> <<"M", "e", "t", "a", "l", "l", "i", "c">> \o EXT_JPG,
            handles |-> {}]
F_sky == [dir |-> "a", file_name |-> <<"s", "k", "y", "_", "n", "o", "r", "m", "a", "l">> \o EXT_HDR,
          handles |-> {}]
F_shader == [dir |-> "a", file_name |-> <<"u", "i">> \o EXT_SHADER, handles |-> {}]
F_cube == [dir |-> "a", file_name |-> <<"c", "u", "b", "e">> \o EXT_GLTF, handles |-> {"m1"}]
F_pair == [dir |-> "a", file_name |-> <<"p", "a", "i", "r">> \o EXT_GLTF, handles |-> {"m1", "m2"}]
F_ball == [dir |-> "b", file_name |-> <<"b", "a", "l", "l">> \o EXT_GLTF, handles |-> {"m1", "m3", "m4"}]

\* the directory trees the manager is pointed at, each in WalkDir order
Roots ==
    { <<F_cube>>,
      <<F_rockA, F_cube, F_shader>>,
      <<F_white, F_rockA, F_rockB, F_pair>>,
      <<F_rockN, F_white, F_metal, F_sky>>,
      <<F_ball, F_cube>> }

Handles == {"m1", "m2", "m3", "m4"}

\* the material handles the meshes of a directory listing refer to
HandlesOf(r) == UNION {r[i].handles : i \in 1..Len(r)}

\* NewMaterialData.material_kind of the data a handle loads
MaterialKindOf(h) ==
    CASE h = "m1" -> "PBR" [] h = "m2" -> "PBR" [] h = "m3" -> "Unlit" [] OTHER -> "None"

(* ----------------------------- hash maps ------------------------------ *)

\* HashMap::insert
Insert(m, k, v) == [x \in (DOMAIN m) \cup {k} |-> IF x = k THEN v ELSE m[x]]

EmptyMap == [x \in {} |-> 0]

\* Option<T> as a sequence: << >> is None, <<v>> is Some(v)
None == << >>
Some(v) == <<v>>
is_none(o) == o = << >>
is_some(o) == o # << >>
unwrap(o) == o[1]

(* -------------------------- AssetManager::new ------------------------- *)

new ==
    /\ materials = EmptyMap
    /\ images = EmptyMap
    /\ loads = [h \in Handles |-> 0]
    /\ first_ret = EmptyMap
    /\ multi_bind_groups = EmptyMap
    /\ pc = "idle"
    /\ cursor = 0
    /\ init_encoder = << >>
    /\ queue = << >>
    /\ ret = [op |-> "new"]
    /\ panicked = FALSE

Init ==
    /\ root \in Roots
    /\ new

(* ------------------------- AssetManager::load ------------------------- *)

\* the for loop over mesh.data: every handle of the mesh is inserted with None
RECURSIVE RegisterHandles(_, _)
RegisterHandles(m, hs) ==
    IF hs = {} THEN m
    ELSE LET h == CHOOSE x \in hs : TRUE
         IN  RegisterHandles(Insert(m, h, None), hs \ {h})

\* the copy_buffer_to_texture command an image constructor records
CopyCommand(e, format) == [path |-> <<e.dir, e.file_name>>, format |-> format]

\* Image::new_normal / new_color / new_hdr: the image and its GPU format
NewImage(e, format) ==
    [name |-> ImageName(e.file_name), path |-> <<e.dir, e.file_name>>, format |-> format]

IsImageFile(e) ==
    \/ EndsWith(e.file_name, EXT_PNG)
    \/ EndsWith(e.file_name, EXT_JPG)
    \/ EndsWith(e.file_name, EXT_HDR)

\* a format choice that looks for the patterns without lowering the name first
FormatForCaseSensitive(e) ==
    IF EndsWith(e.file_name, EXT_PNG) \/ EndsWith(e.file_name, EXT_JPG)
    THEN IF Contains(e.file_name, PAT_NORMAL) \/ Contains(e.file_name, PAT_METALLIC)
         THEN "Rgba8Unorm"
         ELSE "Rgba8UnormSrgb"
    ELSE "Rgba32Float"

\* the GPU format load() picks for an image file, from its file name
FormatFor(e) ==
    IF EndsWith(e.file_name, EXT_PNG) \/ EndsWith(e.file_name, EXT_JPG)
    THEN IF \/ Contains(to_lowercase(e.file_name), PAT_NORMAL)
            \/ Contains(to_lowercase(e.file_name), PAT_METALLIC)
         THEN "Rgba8Unorm"
         ELSE "Rgba8UnormSrgb"
    ELSE "Rgba32Float"

\* a .gltf branch that loads the data of a handle it finds already in the map
EntryMaterialsLoaded(m, e) ==
    IF EndsWith(e.file_name, EXT_GLTF)
    THEN [h \in (DOMAIN m) \cup e.handles |->
             IF h \notin e.handles THEN m[h]
             ELSE IF h \in DOMAIN m
                  THEN Some([handle |-> h, gen |-> 0, material_kind |-> MaterialKindOf(h)])
                  ELSE None]
    ELSE m

\* a .gltf branch that replaces the materials map by the handles of its mesh
EntryMaterialsCleared(m, e) ==
    IF EndsWith(e.file_name, EXT_GLTF) THEN RegisterHandles(EmptyMap, e.handles) ELSE m

\* the materials map after the .gltf branch of one loop iteration
EntryMaterials(m, e) ==
    IF EndsWith(e.file_name, EXT_GLTF) THEN RegisterHandles(m, e.handles) ELSE m

\* image branches that keep the image a name already has (entry().or_insert)
EntryImagesFirstWins(imgs, e) ==
    IF IsImageFile(e) /\ ImageName(e.file_name) \notin DOMAIN imgs
    THEN Insert(imgs, ImageName(e.file_name), NewImage(e, FormatFor(e)))
    ELSE imgs

\* the image cache after the image branches of one loop iteration
EntryImages(imgs, e) ==
    IF IsImageFile(e)
    THEN Insert(imgs, ImageName(e.file_name), NewImage(e, FormatFor(e)))
    ELSE imgs

\* the command encoder after one loop iteration
EntryEncoder(enc, e) ==
    IF IsImageFile(e) THEN Append(enc, CopyCommand(e, FormatFor(e))) ELSE enc

\* the device queue after one loop iteration: load() submits nothing inside the loop
EntryQueue(q, enc, e) == q

\* a load() that finishes its encoder and drops it without submitting
SubmitDropped(q, enc) == q

\* queue.submit(Some(init_encoder.finish())) after the loop
SubmitAtEnd(q, enc) == Append(q, enc)

\* load() is entered: a fresh command encoder is created
LoadBegin ==
    /\ pc = "idle"
    /\ ~panicked
    /\ pc' = "walk"
    /\ cursor' = 0
    /\ init_encoder' = << >>
    /\ queue' = << >>
    /\ ret' = [op |-> "load_begin"]
    /\ UNCHANGED <<root, materials, images, loads, first_ret, multi_bind_groups, panicked>>

\* one iteration of the for loop over WalkDir, on the next entry of the listing
LoadEntry ==
    /\ pc = "walk"
    /\ ~panicked
    /\ cursor < Len(root)
    /\ LET e == root[cursor + 1] IN
        /\ materials' = EntryMaterials(materials, e)
        /\ images' = EntryImages(images, e)
        /\ init_encoder' = EntryEncoder(init_encoder, e)
        /\ queue' = EntryQueue(queue, init_encoder', e)
    /\ cursor' = cursor + 1
    /\ UNCHANGED <<root, loads, first_ret, multi_bind_groups, pc, ret, panicked>>

\* a loop that reports a failed entry and goes on with the next one
LoadEntrySkipped ==
    /\ pc = "walk"
    /\ ~panicked
    /\ cursor < Len(root)
    /\ cursor' = cursor + 1
    /\ ret' = [op |-> "load_panic"]
    /\ UNCHANGED <<root, materials, images, loads, first_ret, multi_bind_groups,
                   pc, init_encoder, queue, panicked>>

\* an expect/unwrap of the iteration fires: the entry is inaccessible, or the
\* glTF load, image open or decode fails
LoadEntryPanic ==
    /\ pc = "walk"
    /\ ~panicked
    /\ cursor < Len(root)
    /\ panicked' = TRUE
    /\ ret' = [op |-> "load_panic"]
    /\ UNCHANGED <<root, materials, images, loads, first_ret, multi_bind_groups,
                   pc, cursor, init_encoder, queue>>

\* the loop is over: the encoder is finished and submitted, load() returns
LoadFinish ==
    /\ pc = "walk"
    /\ ~panicked
    /\ cursor = Len(root)
    /\ queue' = SubmitAtEnd(queue, init_encoder)
    /\ init_encoder' = << >>
    /\ pc' = "idle"
    /\ ret' = [op |-> "load"]
    /\ UNCHANGED <<root, materials, images, loads, first_ret, multi_bind_groups,
                   cursor, panicked>>

(* ------------------ AssetManager::get_material_or_load ----------------- *)

\* handle.load_data wrapped by Arc::new: the n-th load of a handle makes a new
\* allocation, told apart from the others by gen
load_data(h, n) == [handle |-> h, gen |-> n, material_kind |-> MaterialKindOf(h)]

\* the state of a handle in the materials map
StateOf(m, h) ==
    IF h \notin DOMAIN m THEN "Unregistered"
    ELSE IF is_none(m[h]) THEN "Registered" ELSE "Resolved"

\* and_modify: the closure runs on an occupied entry and loads when it holds None
AndModify(m, n, h) ==
    IF h \in DOMAIN m /\ is_none(m[h])
    THEN [materials |-> [m EXCEPT ![h] = Some(load_data(h, n + 1))], loads |-> n + 1]
    ELSE [materials |-> m, loads |-> n]

\* the argument of or_insert is built before or_insert is called: one more
\* load_data, whatever the entry holds
OrInsertArg(n, h) == [value |-> Some(load_data(h, n + 1)), loads |-> n + 1]

\* or_insert: a vacant entry takes the value, an occupied one keeps its own
OrInsert(m, h, v) == IF h \in DOMAIN m THEN m ELSE Insert(m, h, v)

\* the whole call: the map and load counter after it, and the Arc it returns
ResolveResult(m, n, h) ==
    LET a == AndModify(m, n, h)
        arg == OrInsertArg(a.loads, h)
        m2 == OrInsert(a.materials, h, arg.value)
    IN  [materials |-> m2, loads |-> arg.loads, val |-> unwrap(m2[h])]

get_material_or_load(h) ==
    /\ pc = "idle"
    /\ ~panicked
    /\ LET r == ResolveResult(materials, loads[h], h) IN
        /\ r.loads <= MaxLoads
        /\ materials' = r.materials
        /\ loads' = [loads EXCEPT ![h] = r.loads]
        /\ first_ret' = IF h \in DOMAIN first_ret THEN first_ret
                        ELSE Insert(first_ret, h, r.val)
        /\ ret' = [op |-> "get_material_or_load", handle |-> h, val |-> r.val,
                   before |-> StateOf(materials, h), nloads |-> r.loads - loads[h]]
    /\ UNCHANGED <<root, images, multi_bind_groups, pc, cursor, init_encoder, queue,
                   panicked>>

(* ------------------ AssetManager::get_loaded_materials ----------------- *)

\* the orders in which a HashMap may yield the elements of a set
Orders(S) ==
    {s \in [1..Cardinality(S) -> S] : \A i, j \in 1..Cardinality(S) : s[i] = s[j] => i = j}

\* a collection that loses the last resolved material of the iteration
LoadedMaterialsShort(m, order) ==
    LET kept == SelectSeq(order, LAMBDA h : is_some(m[h]))
    IN  [i \in 1..(IF Len(kept) = 0 THEN 0 ELSE Len(kept) - 1) |-> unwrap(m[kept[i]])]

\* values().filter(is_some).map(unwrap().clone()).collect() for one iteration order
LoadedMaterials(m, order) ==
    LET kept == SelectSeq(order, LAMBDA h : is_some(m[h]))
    IN  [i \in 1..Len(kept) |-> unwrap(m[kept[i]])]

get_loaded_materials ==
    /\ pc = "idle"
    /\ ~panicked
    /\ \E order \in Orders(DOMAIN materials) :
           ret' = [op |-> "get_loaded_materials", val |-> LoadedMaterials(materials, order)]
    /\ UNCHANGED <<root, materials, images, loads, first_ret, multi_bind_groups,
                   pc, cursor, init_encoder, queue, panicked>>

(* ------------------- AssetManager::get_image_or_white ------------------ *)

\* the keys callers look images up by
Keys == {WHITE, ROCK, <<"m", "i", "s", "s">>}

\* a lookup that falls back to whichever image the map yields first
ImageOrAny(imgs, key) ==
    IF WHITE \notin DOMAIN imgs THEN None
    ELSE IF key \in DOMAIN imgs THEN Some(imgs[key])
    ELSE Some(imgs[CHOOSE k \in DOMAIN imgs : k # WHITE \/ DOMAIN imgs = {WHITE}])

\* self.images.get(key).unwrap_or(self.images.get("white").unwrap()).clone():
\* the argument of unwrap_or is evaluated first, so the unwrap of the "white"
\* lookup panics (None here) when "white" is absent, whatever key is
ImageOrWhite(imgs, key) ==
    IF WHITE \notin DOMAIN imgs THEN None
    ELSE IF key \in DOMAIN imgs THEN Some(imgs[key]) ELSE Some(imgs[WHITE])

get_image_or_white(key) ==
    /\ pc = "idle"
    /\ ~panicked
    /\ ret' = [op |-> "get_image_or_white", key |-> key, val |-> ImageOrWhite(images, key),
               images_before |-> images]
    /\ panicked' = is_none(ImageOrWhite(images, key))
    /\ UNCHANGED <<root, materials, images, loads, first_ret, multi_bind_groups,
                   pc, cursor, init_encoder, queue>>

(* --------------------- AssetManager::load_materials -------------------- *)

\* material.create_bind_group: the bind group built for a material
create_bind_group(material) == [of |-> material]

\* GPUResourceManager::add_multi_bind_group("pbr", bind_group, index)
add_multi_bind_group(table, bind_group, index) == Insert(table, index, bind_group)

\* a match whose Unlit arm keeps its bind group in current_bind_group too
MatchKindUnlitKept(st, material) ==
    CASE material.material_kind \in {"Unlit", "PBR"} ->
            [st EXCEPT !.built = Append(@, create_bind_group(material)),
                       !.current_bind_group = Some(create_bind_group(material))]
      [] OTHER -> st

\* the match on material_kind: the bind groups built so far and current_bind_group
MatchKind(st, material) ==
    CASE material.material_kind = "Unlit" ->
            [st EXCEPT !.built = Append(@, create_bind_group(material))]
      [] material.material_kind = "PBR" ->
            [st EXCEPT !.built = Append(@, create_bind_group(material)),
                       !.current_bind_group = Some(create_bind_group(material))]
      [] OTHER -> st

\* if current_bind_group.is_some() { add_multi_bind_group("pbr", take(), current_index) }
RegisterCurrent(st) ==
    IF is_some(st.current_bind_group)
    THEN [st EXCEPT !.calls = Append(@, [group |-> "pbr",
                                         bind_group |-> unwrap(st.current_bind_group),
                                         index |-> st.current_index,
                                         position |-> st.position]),
                    !.table = add_multi_bind_group(@, unwrap(st.current_bind_group),
                                                   st.current_index),
                    !.current_bind_group = None]
    ELSE st

\* the end of one loop iteration: current_bind_group = None; current_index is
\* never assigned again after its initialisation
EndIteration(st) ==
    [st EXCEPT !.current_bind_group = None, !.position = @ + 1]

\* the for loop over self.get_loaded_materials()
RECURSIVE MaterialsLoop(_, _, _)
MaterialsLoop(mats, i, st) ==
    IF i > Len(mats) THEN st
    ELSE MaterialsLoop(mats, i + 1, EndIteration(RegisterCurrent(MatchKind(st, mats[i]))))

\* let mut current_bind_group = None; let mut current_index = 0;
LoopStart(table) ==
    [current_bind_group |-> None, current_index |-> 0, position |-> 0,
     built |-> << >>, calls |-> << >>, table |-> table]

load_materials ==
    /\ pc = "idle"
    /\ ~panicked
    /\ \E order \in Orders(DOMAIN materials) :
         LET mats == LoadedMaterials(materials, order)
             st == MaterialsLoop(mats, 1, LoopStart(multi_bind_groups))
         IN  /\ multi_bind_groups' = st.table
             /\ ret' = [op |-> "load_materials", after |-> ret.op, processed |-> mats,
                        built |-> st.built, calls |-> st.calls,
                        table_before |-> multi_bind_groups]
    /\ UNCHANGED <<root, materials, images, loads, first_ret, pc, cursor,
                   init_encoder, queue, panicked>>

(* ------------------------------ behaviours ----------------------------- *)

Next ==
    \/ LoadBegin
    \/ LoadEntry
    \/ LoadEntryPanic
    \/ LoadFinish
    \/ \E h \in HandlesOf(root) : get_material_or_load(h)
    \/ get_loaded_materials
    \/ \E key \in Keys : get_image_or_white(key)
    \/ load_materials

Spec == Init /\ [][Next]_vars

(* ------------------------ graphics/material/image ---------------------- *)

ImageFormats == {"SRGB", "RGB", "HDR16", "HDR32"}

\* impl Into<wgpu::TextureFormat> for ImageFormat
IntoTextureFormat(format) ==
    CASE format = "HDR16" -> "Rgba16Float"
      [] format = "HDR32" -> "Rgba32Float"
      [] format = "RGB" -> "Rgba8Unorm"
      [] format = "SRGB" -> "Rgba8UnormSrgb"

\* the ImageInfo records handed to ImageBuilder::build
ImageInfos == {[file |-> f, format |-> fmt] : f \in {"rock", "sky"}, fmt \in ImageFormats}

\* read_image_hdr, flat_map to [r, g, b, 1.0] and the cast of the f32 slice to
\* bytes: four f32 of four bytes for each of the width * height pixels
HdrBytesLen(width, height) == ((width * height) * 4) * 4

\* to_rgba().into_raw(): four u8 for each of the width * height pixels
RgbaBytesLen(width, height) == (width * height) * 4

\* the match on image_info.format in ImageBuilder::build: the decoded buffer's length
DecodedBytesLen(format, width, height) ==
    IF format \in {"HDR16", "HDR32"} THEN HdrBytesLen(width, height)
    ELSE RgbaBytesLen(width, height)

\* a row stride taken from the texel size of the GPU format
BytesPerRowByTexel(format, width) ==
    CASE format \in {"Rgba8UnormSrgb", "Rgba8Unorm"} -> 4 * width
      [] format = "Rgba16Float" -> 8 * width
      [] OTHER -> 16 * width

\* bytes_per_row of the copy in create_texture and in Image::new
BytesPerRow(format, width) ==
    IF format = "Rgba8UnormSrgb" \/ format = "Rgba8Unorm" THEN 4 * width
    ELSE (4 * 4) * width

\* create_texture: the extent and the buffer-to-texture copy it records
create_texture(width, height, format, bytes_len) ==
    [extent |-> [width |-> width, height |-> height, depth |-> 1],
     copy |-> [buffer_len |-> bytes_len, bytes_per_row |-> BytesPerRow(format, width),
               rows_per_image |-> 0, format |-> format]]

\* ImageBuilder::build on bytes that decode to a width x height image
BuildResult(image_info, width, height) ==
    LET bytes_len == DecodedBytesLen(image_info.format, width, height)
        format == IntoTextureFormat(image_info.format)
        t == create_texture(width, height, format, bytes_len)
    IN  [image |-> [image_info |-> image_info, extent |-> t.extent, format |-> format],
         copy |-> t.copy]

build(image_info, width, height) ==
    /\ pc = "idle"
    /\ ~panicked
    /\ ret' = [op |-> "build", width |-> width, height |-> height,
               image |-> BuildResult(image_info, width, height).image,
               copy |-> BuildResult(image_info, width, height).copy]
    /\ UNCHANGED <<root, materials, images, loads, first_ret, multi_bind_groups,
                   pc, cursor, init_encoder, queue, panicked>>

\* the files Image::new is given
ImageFiles == {F_white, F_rockA, F_rockB, F_rockN, F_metal, F_sky}

\* the path of a file: its directory, a separator, its file name
PathOf(e) == <<e.dir, "/">> \o e.file_name

\* the if / else if / else of Image::new: buffer length and GPU format, from
\* create_hdr_image, create_normal_image and create_color_image
CreateImage(path, width, height) ==
    IF EndsWith(path, EXT_HDR)
    THEN [bytes_len |-> HdrBytesLen(width, height), format |-> "Rgba32Float"]
    ELSE IF \/ Contains(to_lowercase(path), PAT_NORMAL)
            \/ Contains(to_lowercase(path), PAT_METALLIC)
         THEN [bytes_len |-> RgbaBytesLen(width, height), format |-> "Rgba8Unorm"]
         ELSE [bytes_len |-> RgbaBytesLen(width, height), format |-> "Rgba8UnormSrgb"]

\* Image::new on a file that decodes to a width x height image
NewResult(path, file_name, width, height) ==
    LET c == CreateImage(path, width, height)
    IN  [image |-> [image_info |-> [file |-> file_name, format |-> "SRGB"],
                    extent |-> [width |-> width, height |-> height, depth |-> 1],
                    format |-> c.format],
         copy |-> [buffer_len |-> c.bytes_len,
                   bytes_per_row |-> BytesPerRow(c.format, width),
                   rows_per_image |-> 0, format |-> c.format]]

Image_new(e, width, height) ==
    /\ pc = "idle"
    /\ ~panicked
    /\ ret' = [op |-> "Image::new", width |-> width, height |-> height,
               image |-> NewResult(PathOf(e), e.file_name, width, height).image,
               copy |-> NewResult(PathOf(e), e.file_name, width, height).copy]
    /\ UNCHANGED <<root, materials, images, loads, first_ret, multi_bind_groups,
                   pc, cursor, init_encoder, queue, panicked>>

\* the image constructors applied to every format, file and size within the bounds
NextImage ==
    \/ \E info \in ImageInfos, w \in 1..MaxWidth, h \in 1..MaxHeight : build(info, w, h)
    \/ \E e \in ImageFiles, w \in 1..MaxWidth, h \in 1..MaxHeight : Image_new(e, w, h)

SpecImage == Init /\ [][NextImage]_vars

(* ------------------------------- claims -------------------------------- *)

\* C1: the material load work (handle.load_data) runs at most once per handle:
\* a get_material_or_load call on a Resolved handle performs no load and a call
\* on a Registered(None) handle performs exactly one.
C1_LoadAtMostOnce ==
    /\ \A h \in Handles : loads[h] <= 1
    /\ ret.op = "get_material_or_load" =>
          /\ ret.before = "Resolved" => ret.nloads = 0
          /\ ret.before = "Registered" => ret.nloads = 1

\* C2: monotonic resolution: once a handle's entry in the materials map is
\* Some(data), no step of load, get_material_or_load, get_loaded_materials or
\* load_materials sets it back to None (or removes it).
C2_MonotonicResolution ==
    [][\A h \in DOMAIN materials :
          is_some(materials[h]) => (h \in DOMAIN materials' /\ is_some(materials'[h]))]_vars

\* C3: get_image_or_white(key) returns the image stored under key whenever key
\* is in the image cache, also when "white" is absent; it fails fatally only
\* when both key and "white" are absent.
C3_PresentKeyIsReturned ==
    ret.op = "get_image_or_white" =>
        /\ ret.key \in DOMAIN ret.images_before =>
              ret.val = Some(ret.images_before[ret.key])
        /\ is_none(ret.val) =>
              (ret.key \notin DOMAIN ret.images_before /\ WHITE \notin DOMAIN ret.images_before)

\* C4: the fallback image "white" is a key of the image cache in every
\* reachable state of an AssetManager, from construction on.
C4_WhiteAlwaysCached == WHITE \in DOMAIN images

\* C5: within one load_materials pass every PBR material is registered in the
\* "pbr" table under an index equal to its sequential position in the pass
\* (among the materials processed, or among the PBR materials registered), so
\* two distinct PBR materials of the same pass get different indices.
C5_IndexIsPosition ==
    ret.op = "load_materials" =>
        /\ \A i \in 1..Len(ret.calls) :
              ret.calls[i].index \in {ret.calls[i].position, i - 1}
        /\ \A i, j \in 1..Len(ret.calls) :
              i # j => ret.calls[i].index # ret.calls[j].index

\* the indices of the image files among the first n entries of a listing
ImageEntries(r, n) == {i \in 1..n : IsImageFile(r[i])}

\* C6: in a load pass every image copy is recorded into the one command encoder
\* before any submission; while the loop runs nothing has been submitted and the
\* encoder holds one copy per image file seen so far, in discovery order; when
\* load() has returned the queue holds exactly one submission, made of the N
\* copies of the N image files, and nothing is recorded after it.
C6_SingleSubmitAtEnd ==
    /\ pc = "walk" =>
          /\ queue = << >>
          /\ Len(init_encoder) = Cardinality(ImageEntries(root, cursor))
          /\ \A k \in 1..Len(init_encoder) :
                \E i \in ImageEntries(root, cursor) :
                   /\ init_encoder[k].path = <<root[i].dir, root[i].file_name>>
                   /\ Cardinality({j \in ImageEntries(root, cursor) : j <= i}) = k
    /\ (pc = "idle" /\ ret.op = "load") =>
          /\ Len(queue) = 1
          /\ Len(queue[1]) = Cardinality(ImageEntries(root, Len(root)))
          /\ \A k \in 1..Len(queue[1]) :
                \E i \in ImageEntries(root, Len(root)) :
                   /\ queue[1][k].path = <<root[i].dir, root[i].file_name>>
                   /\ Cardinality({j \in ImageEntries(root, Len(root)) : j <= i}) = k
    /\ pc = "idle" => init_encoder = << >>

\* a load pass over a listing with several image files has completed
C6_Witness ==
    /\ pc = "idle"
    /\ ret.op = "load"
    /\ Len(queue) = 1
    /\ Len(queue[1]) >= 3

\* the PBR handles the meshes of the listing refer to
PbrHandlesOf(r) == {h \in HandlesOf(r) : MaterialKindOf(h) = "PBR"}

\* C7: when a mesh loaded by load() references a handle M of kind PBR, then
\* after load() followed by load_materials() the "pbr" table holds exactly one
\* entry, the bind group of M.
C7_OnePbrEntryAfterPass ==
    (ret.op = "load_materials" /\ ret.after = "load") =>
        \A M \in Handles :
            PbrHandlesOf(root) = {M} =>
                /\ Cardinality(DOMAIN multi_bind_groups) = 1
                /\ \A i \in DOMAIN multi_bind_groups : multi_bind_groups[i].of.handle = M

\* C8: every get_material_or_load(H) call after the first returns the same
\* shared data as the first call returned, and the data stored under H after
\* the first call is still the stored data after every later call.
C8_SameDataEveryCall ==
    ret.op = "get_material_or_load" =>
        /\ ret.val = first_ret[ret.handle]
        /\ materials[ret.handle] = Some(first_ret[ret.handle])

\* C9: for a key that is not in the image cache while "white" is,
\* get_image_or_white(key) returns the image stored under "white" and leaves
\* the image cache as it was.
C9_FallbackIsWhite ==
    (/\ ret.op = "get_image_or_white"
     /\ ret.key \notin DOMAIN ret.images_before
     /\ WHITE \in DOMAIN ret.images_before) =>
        /\ ret.val = Some(ret.images_before[WHITE])
        /\ images = ret.images_before

\* a lookup of a missing key has fallen back while the cache holds other images
C9_Witness ==
    /\ ret.op = "get_image_or_white"
    /\ ret.key \notin DOMAIN images
    /\ WHITE \in DOMAIN images
    /\ Cardinality(DOMAIN images) >= 2
    /\ is_some(ret.val)

\* the materials of a kind among those a pass processed, in processing order
OfKind(mats, kinds) == SelectSeq(mats, LAMBDA d : d.material_kind \in kinds)

\* C10: load_materials dispatches on the kind of each resolved material: a PBR
\* material causes exactly one add_multi_bind_group("pbr", ...) call with its
\* own bind group, an Unlit material has its bind group built but is not
\* registered, a None material builds nothing; the pass processes every
\* resolved material once, so the number of registrations equals the number of
\* resolved PBR materials.
C10_DispatchOnKind ==
    ret.op = "load_materials" =>
        /\ Len(ret.processed) = Cardinality({h \in DOMAIN materials : is_some(materials[h])})
        /\ \A h \in DOMAIN materials :
              is_some(materials[h]) =>
                 \E i \in 1..Len(ret.processed) : ret.processed[i] = unwrap(materials[h])
        /\ Len(ret.calls) =
              Cardinality({h \in DOMAIN materials :
                              is_some(materials[h]) /\ MaterialKindOf(h) = "PBR"})
        /\ Len(ret.calls) = Len(OfKind(ret.processed, {"PBR"}))
        /\ \A i \in 1..Len(ret.calls) :
              /\ ret.calls[i].group = "pbr"
              /\ ret.calls[i].bind_group.of = OfKind(ret.processed, {"PBR"})[i]
        /\ Len(ret.built) = Len(OfKind(ret.processed, {"PBR", "Unlit"}))
        /\ \A i \in 1..Len(ret.built) :
              ret.built[i].of = OfKind(ret.processed, {"PBR", "Unlit"})[i]

\* a pass has processed a PBR, an Unlit and a None material together
C10_Witness ==
    /\ ret.op = "load_materials"
    /\ \A k \in {"PBR", "Unlit", "None"} :
          \E i \in 1..Len(ret.processed) : ret.processed[i].material_kind = k
    /\ Len(ret.calls) = 1

\* C11: idempotent registration: when load() registers (inserts with None) a
\* handle that is already Registered(None), the handle is still
\* Registered(None) afterwards, and when every handle of the mesh was already
\* in the materials map the map has as many entries as before.
C11_IdempotentRegistration ==
    [][(pc = "walk" /\ cursor' = cursor + 1) =>
          \A h \in root[cursor + 1].handles :
             (h \in DOMAIN materials /\ is_none(materials[h])) =>
                /\ h \in DOMAIN materials'
                /\ materials'[h] = None
                /\ root[cursor + 1].handles \subseteq DOMAIN materials =>
                      Cardinality(DOMAIN materials') = Cardinality(DOMAIN materials)]_vars

\* one pass has registered the same handle twice, by two meshes, and the handle
\* is Registered(None)
C11_Witness ==
    /\ pc = "walk"
    /\ \E i, j \in 1..cursor :
          /\ i < j
          /\ \E h \in root[i].handles \cap root[j].handles :
                /\ h \in DOMAIN materials
                /\ is_none(materials[h])
                /\ Cardinality(DOMAIN materials) = Cardinality(root[i].handles \cup root[j].handles)

\* whether a file name holds "_normal" or "metallic", letter case ignored
NamesLinearData(file_name) ==
    \E i \in 1..Len(file_name) :
       \/ /\ i + Len(PAT_NORMAL) - 1 <= Len(file_name)
          /\ \A k \in 1..Len(PAT_NORMAL) : LowerOf(file_name[i + k - 1]) = PAT_NORMAL[k]
       \/ /\ i + Len(PAT_METALLIC) - 1 <= Len(file_name)
          /\ \A k \in 1..Len(PAT_METALLIC) : LowerOf(file_name[i + k - 1]) = PAT_METALLIC[k]

\* the GPU format the claim expects for a file name
ExpectedFormats(file_name) ==
    IF EndsWith(file_name, EXT_HDR) THEN {"Rgba16Float", "Rgba32Float"}
    ELSE IF NamesLinearData(file_name) THEN {"Rgba8Unorm"} ELSE {"Rgba8UnormSrgb"}

\* C12: format selection by file name: a .png/.jpg file whose name contains
\* "_normal" or "metallic" (case-insensitively) is uploaded with Rgba8Unorm,
\* every other .png/.jpg file with Rgba8UnormSrgb, and a .hdr file with a float
\* format whatever the rest of its name; this holds of every cached image and
\* of every copy command recorded or submitted.
C12_FormatByFileName ==
    /\ \A k \in DOMAIN images : images[k].format \in ExpectedFormats(images[k].path[2])
    /\ \A i \in 1..Len(init_encoder) :
          init_encoder[i].format \in ExpectedFormats(init_encoder[i].path[2])
    /\ \A b \in 1..Len(queue) : \A i \in 1..Len(queue[b]) :
          queue[b][i].format \in ExpectedFormats(queue[b][i].path[2])

\* a pass has cached a mixed-case normal map, a metallic map, a color image and
\* an .hdr file whose name holds "_normal", each with its format
C12_Witness ==
    /\ pc = "idle"
    /\ ret.op = "load"
    /\ \E k \in DOMAIN images :
          /\ Contains(images[k].path[2], <<"_", "N", "o", "r", "m", "a", "l">>)
          /\ images[k].format = "Rgba8Unorm"
    /\ \E k \in DOMAIN images :
          /\ Contains(images[k].path[2], <<"M", "e", "t", "a", "l", "l", "i", "c">>)
          /\ images[k].format = "Rgba8Unorm"
    /\ WHITE \in DOMAIN images /\ images[WHITE].format = "Rgba8UnormSrgb"
    /\ \E k \in DOMAIN images :
          /\ EndsWith(images[k].path[2], EXT_HDR)
          /\ Contains(images[k].path[2], PAT_NORMAL)
          /\ images[k].format = "Rgba32Float"

\* C13: get_loaded_materials returns exactly one element for every handle whose
\* entry is Some (its data) and none for a handle whose entry is None, so the
\* result is as long as the number of Resolved handles; the call leaves the
\* materials map unchanged.
C13_LoadedAreResolved ==
    [][ret'.op = "get_loaded_materials" =>
          /\ materials' = materials
          /\ Len(ret'.val) = Cardinality({h \in DOMAIN materials : is_some(materials[h])})
          /\ \A h \in DOMAIN materials :
                is_some(materials[h]) =>
                   Cardinality({i \in 1..Len(ret'.val) : ret'.val[i] = unwrap(materials[h])}) = 1
          /\ \A i \in 1..Len(ret'.val) :
                \E h \in DOMAIN materials :
                   is_some(materials[h]) /\ ret'.val[i] = unwrap(materials[h])]_vars

\* the call has returned several materials while another handle is only registered
C13_Witness ==
    /\ ret.op = "get_loaded_materials"
    /\ Len(ret.val) >= 2
    /\ \E h \in DOMAIN materials : is_none(materials[h])

\* C14 as claimed: the state of every handle changes only along the chain
\* Unregistered -> Registered(None) -> Resolved: a handle becomes Resolved
\* only from Registered(None), never directly from Unregistered.
C14_OnlyAlongChain ==
    [][\A h \in Handles :
          StateOf(materials', h) # StateOf(materials, h) =>
             <<StateOf(materials, h), StateOf(materials', h)>> \in
                {<<"Unregistered", "Registered">>, <<"Registered", "Resolved">>}]_vars

\* C14 as amended: a handle becomes Resolved only by get_material_or_load on
\* it, from Registered(None) or directly from Unregistered, and every such call
\* leaves its handle Resolved; a handle becomes Registered(None) only inside
\* load(); no handle ever returns to Unregistered.
C14_ResolvedOnlyByResolve ==
    [][/\ \A h \in Handles :
             StateOf(materials', h) # StateOf(materials, h) =>
                /\ StateOf(materials', h) # "Unregistered"
                /\ StateOf(materials', h) = "Resolved" =>
                      /\ StateOf(materials, h) \in {"Unregistered", "Registered"}
                      /\ ret'.op = "get_material_or_load"
                      /\ ret'.handle = h
                /\ StateOf(materials', h) = "Registered" =>
                      (pc = "walk" /\ h \in root[cursor + 1].handles)
       /\ (ret'.op = "get_material_or_load" /\ pc' = "idle") =>
             /\ StateOf(materials', ret'.handle) = "Resolved"
             /\ ret'.before = StateOf(materials, ret'.handle)]_vars

\* a call on a handle that was not in the map has left it Resolved
C14_Witness ==
    /\ ret.op = "get_material_or_load"
    /\ ret.before = "Unregistered"
    /\ StateOf(materials, ret.handle) = "Resolved"

\* C15: a failure while load() processes an entry aborts the whole load: the
\* failing step inserts nothing and submits nothing, and after it no step is
\* taken at all, so no later entry is processed, no cache grows and the
\* command encoder of the pass is never submitted.
C15_FailureAbortsLoad ==
    [][/\ ~panicked
       /\ ret'.op = "load_panic" =>
             /\ panicked'
             /\ pc' = "walk"
             /\ cursor' = cursor /\ cursor < Len(root)
             /\ materials' = materials
             /\ images' = images
             /\ queue' = << >>]_vars

\* a pass has failed part-way: entries before the failing one are cached, later
\* ones are not, and nothing was submitted
C15_Witness ==
    /\ panicked
    /\ ret.op = "load_panic"
    /\ pc = "walk"
    /\ cursor >= 1
    /\ images # EmptyMap
    /\ \E i \in (cursor + 1)..Len(root) :
          IsImageFile(root[i]) /\ ImageName(root[i].file_name) \notin DOMAIN images
    /\ queue = << >>

\* the number of entries of the listing the current or just completed pass has
\* processed
Processed ==
    IF pc = "walk" THEN cursor ELSE IF ret.op = "load" THEN Len(root) ELSE 0

\* C16: the image cache is last-write-wins per logical name: for every image
\* file a pass has processed, the cache holds under the file's logical name the
\* image of the last processed file with that name (so two files with one name
\* leave one entry, the later file's, and the other names keep their own).
C16_LastWriteWins ==
    \A i \in ImageEntries(root, Processed) :
       LET same == {j \in ImageEntries(root, Processed) :
                       ImageName(root[j].file_name) = ImageName(root[i].file_name)}
           last == CHOOSE j \in same : \A k \in same : k <= j
       IN  /\ ImageName(root[i].file_name) \in DOMAIN images
           /\ images[ImageName(root[i].file_name)].path =
                 <<root[last].dir, root[last].file_name>>

\* a completed pass found two files named "rock": the cache holds the later
\* one, and "white" beside it
C16_Witness ==
    /\ pc = "idle"
    /\ ret.op = "load"
    /\ \E i, j \in 1..Len(root) :
          /\ i < j
          /\ ImageName(root[i].file_name) = ROCK
          /\ ImageName(root[j].file_name) = ROCK
          /\ images[ROCK].path = <<root[j].dir, root[j].file_name>>
          /\ images[ROCK].path # <<root[i].dir, root[i].file_name>>
    /\ WHITE \in DOMAIN images
    /\ Cardinality(DOMAIN images) = 2

\* the bytes per pixel the claims give for a declared image format
BytesPerPixel(format) == IF format \in {"SRGB", "RGB"} THEN 4 ELSE 16

\* C17: format-to-stride consistency: for every ImageFormat the buffer
\* ImageBuilder::build decodes has length width * height * bpp(format) and the
\* row stride of the recorded copy is bpp(format) * width, with bpp 4 for SRGB
\* and RGB and 16 for HDR16 and HDR32, so stride * height is the buffer length.
C17_StrideMatchesBuffer ==
    ret.op = "build" =>
        LET bpp == BytesPerPixel(ret.image.image_info.format)
        IN  /\ ret.copy.buffer_len = (ret.width * ret.height) * bpp
            /\ ret.copy.bytes_per_row = bpp * ret.width
            /\ ret.copy.bytes_per_row * ret.height = ret.copy.buffer_len
            /\ ret.image.extent = [width |-> ret.width, height |-> ret.height, depth |-> 1]

\* an HDR16 image of several rows and columns has been built
C17_Witness ==
    /\ ret.op = "build"
    /\ ret.image.image_info.format = "HDR16"
    /\ ret.width >= 2
    /\ ret.height >= 2
    /\ ret.copy.bytes_per_row = 16 * ret.width

\* the size in bytes of one texel of a GPU texture format
TexelBytes(format) ==
    CASE format \in {"Rgba8Unorm", "Rgba8UnormSrgb"} -> 4
      [] format = "Rgba16Float" -> 8
      [] format = "Rgba32Float" -> 16

\* C18: for every ImageFormat the GPU texture format it maps to has a texel
\* size equal to the bytes per pixel of the buffer the decoder produces for it,
\* for HDR16 as for SRGB, RGB and HDR32.
C18_TexelMatchesBuffer ==
    ret.op = "build" =>
        /\ TexelBytes(ret.image.format) * (ret.width * ret.height) = ret.copy.buffer_len
        /\ TexelBytes(ret.copy.format) * ret.width = ret.copy.bytes_per_row

\* C19: every Image, whether ImageBuilder::build or Image::new made it, has a
\* GPU format field equal to the GPU format its own image_info.format maps to.
C19_FormatAgreesWithInfo ==
    ret.op \in {"build", "Image::new"} =>
        ret.image.format = IntoTextureFormat(ret.image.image_info.format)

====
